---- MODULE Spec2Model ----
(***************************************************************************)
(* Noise models on Amazon Braket: the noise model (an ordered list of      *)
(* noise model instructions), its application to a circuit, and its        *)
(* filtering, as exercised by the notebook                                 *)
(* examples/braket_features/Noise_models/Noise_models_on_Amazon_Braket.    *)
(***************************************************************************)
EXTENDS Integers, Sequences, FiniteSets, TLC

VARIABLES
    pc,                  \* position in the session
    noise_model,         \* NoiseModel: sequence of NoiseModelInstruction
    circ,                \* Circuit: [instructions, result_types]
    noisy_circ,          \* noise_model.apply(circ)
    noise_model_2,       \* a second NoiseModel
    noisy_circ_2,        \* noise_model_2.apply(noisy_circ)
    reduced_noise_model, \* noise_model.from_filter(...)
    filter_args,         \* the arguments of the last from_filter call
    model_dict,          \* noise_model.to_dict(), saved and loaded as json
    loaded_model,        \* NoiseModel().from_dict(model_dict)
    calls,               \* the (noise, criteria) arguments of the add_noise calls
    same_object,         \* reduced_noise_model is noise_model (one object)
    matches              \* whether the criteria matched the operation

vars == <<pc, noise_model, circ, noisy_circ, noise_model_2, noisy_circ_2,
          reduced_noise_model, filter_args, model_dict, loaded_model, calls,
          same_object, matches>>

\* What the sessions that apply and filter leave alone.
dict_vars == <<model_dict, loaded_model, calls>>

----------------------------------------------------------------------------
(* Bounds of the exploration.                                              *)

\* Spec: instructions of the model.
MaxInstr == 2
\* Spec: instructions of the model + gates + result types of the circuit.
MaxSize == 4
\* SpecSeq: instructions of each of the two models.
MaxSeqInstr == 1
\* SpecSeq: instructions of both models + gates + result types.
MaxSeqSize == 3
\* SpecFilter: instructions of the filtered model.
MaxFilterInstr == 3
\* SpecDict: instructions of the saved model.
MaxDictInstr == 2
\* SpecFrame: instructions of the model + gates + result types of the circuit.
MaxFrameSize == 3

----------------------------------------------------------------------------
(* Values.                                                                 *)

\* qubits=None, gates=None, observables=None: the filter is absent.
None == [none |-> TRUE, set |-> {}]
Some(S) == [none |-> FALSE, set |-> S]

\* The qubits, gates and observables of the circuits the sessions build.
Qubits == {0, 1, 2}
Gates == {"H", "S"}
Observables == {"X", "Z"}
\* The qubits the sessions read out: circ.sample(..., target=0), (..., target=1).
SampledQubits == {0, 1}

\* An operator of a circuit instruction: a gate, or a noise channel with its
\* parameters (probabilities in hundredths).
Operator(class, params) == [class |-> class, params |-> params]
Gate(class) == Operator(class, <<>>)
Depolarizing(p) == Operator("Depolarizing", <<p>>)
BitFlip(p) == Operator("BitFlip", <<p>>)
PhaseFlip(p) == Operator("PhaseFlip", <<p>>)
AmplitudeDamping(p) == Operator("AmplitudeDamping", <<p>>)
PauliChannel(px, py, pz) == Operator("PauliChannel", <<px, py, pz>>)

NoiseClasses ==
    {"Depolarizing", "BitFlip", "PhaseFlip", "AmplitudeDamping", "PauliChannel"}

\* The channels the sessions draw from: Depolarizing(0.1), BitFlip(0.2).
Noises == {Depolarizing(10), BitFlip(20)}

GateCriteria(gates, qubits) ==
    [kind |-> "GateCriteria", gates |-> gates, qubits |-> qubits]

ObservableCriteria(observables, qubits) ==
    [kind |-> "ObservableCriteria", observables |-> observables, qubits |-> qubits]

NoiseModelInstruction(noise, criteria) == [noise |-> noise, criteria |-> criteria]

\* The criteria the sessions draw from.
QubitFilters == {None, Some({0})}
GateFilters == {None, Some({"H"})}
ObservableFilters == {None, Some({"Z"})}

CriteriaPool ==
    {GateCriteria(g, q) : g \in GateFilters, q \in QubitFilters}
    \cup {ObservableCriteria(o, q) : o \in ObservableFilters, q \in QubitFilters}

\* The criteria of the models that are filtered: qubits also [1, 2], and
\* the observable criteria all on Z, as from_filter has no observable filter.
FilterQubitFilters == QubitFilters \cup {Some({1, 2})}

FilterCriteriaPool ==
    {GateCriteria(g, q) : g \in GateFilters, q \in FilterQubitFilters}
    \cup {ObservableCriteria(Some({"Z"}), q) : q \in FilterQubitFilters}

\* A circuit instruction: an operator on its target qubits.
Instruction(operator, target) == [operator |-> operator, target |-> target]

\* A result type: Sample(observable) on a target.
Sample(observable, target) == [observable |-> observable, target |-> target]

Circuit(instructions, result_types) ==
    [instructions |-> instructions, result_types |-> result_types]

EmptyCircuit == Circuit(<<>>, <<>>)

IsNoise(instr) == instr.operator.class \in NoiseClasses

----------------------------------------------------------------------------
(* Criteria.                                                               *)

\* Mutant of QubitsAdmit: one listed qubit among the targets is enough.
QubitsAdmitAny(qubits, target) ==
    qubits.none \/ \E i \in DOMAIN target : target[i] \in qubits.set

\* qubits=None applies to all qubits; otherwise only to the listed qubits.
QubitsAdmit(qubits, target) ==
    qubits.none \/ \A i \in DOMAIN target : target[i] \in qubits.set

\* A noise channel already in the circuit is an operation like any other:
\* no gate filter names it, so only gates=None admits it.
NoiseOperatorAdmitted(gates) == gates.none

GateCriteriaMatches(criteria, instr) ==
    /\ criteria.kind = "GateCriteria"
    /\ IF IsNoise(instr)
       THEN NoiseOperatorAdmitted(criteria.gates)
       ELSE criteria.gates.none \/ instr.operator.class \in criteria.gates.set
    /\ QubitsAdmit(criteria.qubits, instr.target)

ObservableCriteriaMatches(criteria, result_type) ==
    /\ criteria.kind = "ObservableCriteria"
    /\ criteria.observables.none \/ result_type.observable \in criteria.observables.set
    /\ QubitsAdmit(criteria.qubits, result_type.target)

----------------------------------------------------------------------------
(* NoiseModel.apply                                                        *)

\* Mutant of GateNoise: the noise of a later instruction goes before the
\* noise of an earlier one.
RECURSIVE GateNoiseNewestFirst(_, _, _, _)
GateNoiseNewestFirst(model, instr, j, acc) ==
    IF j > Len(model) THEN acc
    ELSE LET later == GateNoiseNewestFirst(model, instr, j + 1, acc)
         IN  IF GateCriteriaMatches(model[j].criteria, instr)
             THEN Append(later, Instruction(model[j].noise, instr.target))
             ELSE later

\* Mutant of GateNoise: observable criteria whose qubits admit the target of
\* an operation put their noise after it too.
RECURSIVE GateNoiseAnyCriteria(_, _, _, _)
GateNoiseAnyCriteria(model, instr, j, acc) ==
    IF j > Len(model) THEN acc
    ELSE GateNoiseAnyCriteria(model, instr, j + 1,
             IF \/ GateCriteriaMatches(model[j].criteria, instr)
                \/ /\ model[j].criteria.kind = "ObservableCriteria"
                   /\ QubitsAdmit(model[j].criteria.qubits, instr.target)
             THEN Append(acc, Instruction(model[j].noise, instr.target))
             ELSE acc)

\* The noise of the instructions j.. of the model that match instr, appended
\* to acc in model order.
RECURSIVE GateNoise(_, _, _, _)
GateNoise(model, instr, j, acc) ==
    IF j > Len(model) THEN acc
    ELSE GateNoise(model, instr, j + 1,
             IF GateCriteriaMatches(model[j].criteria, instr)
             THEN Append(acc, Instruction(model[j].noise, instr.target))
             ELSE acc)

\* The last index of the run of noise channels that follows instruction i.
RECURSIVE NoiseRunEnd(_, _)
NoiseRunEnd(instructions, i) ==
    IF i < Len(instructions) /\ IsNoise(instructions[i + 1])
    THEN NoiseRunEnd(instructions, i + 1)
    ELSE i

\* Mutant of ApplyGateNoise: the noise of a gate goes after the noise that
\* already follows the gate in the circuit.
RECURSIVE ApplyGateNoiseAfterExisting(_, _, _, _)
ApplyGateNoiseAfterExisting(model, instructions, i, acc) ==
    IF i > Len(instructions) THEN acc
    ELSE LET r == IF IsNoise(instructions[i]) THEN i ELSE NoiseRunEnd(instructions, i)
         IN  ApplyGateNoiseAfterExisting(model, instructions, r + 1,
                 GateNoise(model, instructions[i], 1,
                     acc \o SubSeq(instructions, i, r)))

\* Mutant of ApplyGateNoise: the noise channels that the circuit holds
\* already are passed over, no criteria is evaluated against them.
RECURSIVE ApplyGateNoiseSkipNoise(_, _, _, _)
ApplyGateNoiseSkipNoise(model, instructions, i, acc) ==
    IF i > Len(instructions) THEN acc
    ELSE ApplyGateNoiseSkipNoise(model, instructions, i + 1,
             IF IsNoise(instructions[i])
             THEN Append(acc, instructions[i])
             ELSE GateNoise(model, instructions[i], 1, Append(acc, instructions[i])))

\* Mutant of ApplyGateNoise: the noise takes the place of the gate it follows.
RECURSIVE ApplyGateNoiseInPlace(_, _, _, _)
ApplyGateNoiseInPlace(model, instructions, i, acc) ==
    IF i > Len(instructions) THEN acc
    ELSE ApplyGateNoiseInPlace(model, instructions, i + 1,
             LET noise == GateNoise(model, instructions[i], 1, <<>>)
             IN  IF noise = <<>> THEN Append(acc, instructions[i]) ELSE acc \o noise)

\* Mutant of ApplyGateNoise: the gate noise is put off to the end of the
\* circuit.
RECURSIVE ApplyGateNoiseAtEnd(_, _, _, _)
ApplyGateNoiseAtEnd(model, instructions, i, acc) ==
    IF i > Len(instructions) THEN acc
    ELSE GateNoise(model, instructions[i], 1,
             ApplyGateNoiseAtEnd(model, instructions, i + 1,
                 Append(acc, instructions[i])))

\* Each instruction of the circuit, followed directly by its gate noise.
RECURSIVE ApplyGateNoise(_, _, _, _)
ApplyGateNoise(model, instructions, i, acc) ==
    IF i > Len(instructions) THEN acc
    ELSE ApplyGateNoise(model, instructions, i + 1,
             GateNoise(model, instructions[i], 1, Append(acc, instructions[i])))

\* Mutant of ReadoutNoise: the observable of the result type is not looked at.
RECURSIVE ReadoutNoiseAnyObservable(_, _, _, _)
ReadoutNoiseAnyObservable(model, result_type, j, acc) ==
    IF j > Len(model) THEN acc
    ELSE ReadoutNoiseAnyObservable(model, result_type, j + 1,
             IF /\ model[j].criteria.kind = "ObservableCriteria"
                /\ QubitsAdmit(model[j].criteria.qubits, result_type.target)
             THEN Append(acc, Instruction(model[j].noise, result_type.target))
             ELSE acc)

\* The readout noise of the instructions j.. of the model that match the
\* result type, appended to acc in model order.
RECURSIVE ReadoutNoise(_, _, _, _)
ReadoutNoise(model, result_type, j, acc) ==
    IF j > Len(model) THEN acc
    ELSE ReadoutNoise(model, result_type, j + 1,
             IF ObservableCriteriaMatches(model[j].criteria, result_type)
             THEN Append(acc, Instruction(model[j].noise, result_type.target))
             ELSE acc)

\* Mutant of ApplyReadoutNoise: the readout noise goes before the gates.
RECURSIVE ApplyReadoutNoiseFirst(_, _, _, _)
ApplyReadoutNoiseFirst(model, result_types, k, acc) ==
    IF k > Len(result_types) THEN acc
    ELSE ApplyReadoutNoiseFirst(model, result_types, k + 1,
             ReadoutNoise(model, result_types[k], 1, <<>>) \o acc)

\* Readout noise goes after every gate of the circuit.
RECURSIVE ApplyReadoutNoise(_, _, _, _)
ApplyReadoutNoise(model, result_types, k, acc) ==
    IF k > Len(result_types) THEN acc
    ELSE ApplyReadoutNoise(model, result_types, k + 1,
             ReadoutNoise(model, result_types[k], 1, acc))

apply(model, circuit) ==
    Circuit(
        ApplyReadoutNoise(model, circuit.result_types, 1,
            ApplyGateNoise(model, circuit.instructions, 1, <<>>)),
        circuit.result_types)

----------------------------------------------------------------------------
(* NoiseModel.from_filter                                                  *)

\* Mutant of PassesQubit: criteria with qubits=None are taken to name no qubit.
PassesQubitNamedOnly(criteria, qubit) ==
    qubit.none \/ qubit.set \cap criteria.qubits.set # {}

\* qubit=q keeps the criteria that apply to all qubits or name q.
PassesQubit(criteria, qubit) ==
    qubit.none \/ criteria.qubits.none \/ qubit.set \cap criteria.qubits.set # {}

\* Mutant of PassesGate: observable criteria are not subject to the gate filter.
PassesGateOrObservable(criteria, gate) ==
    \/ gate.none
    \/ criteria.kind = "ObservableCriteria"
    \/ criteria.gates.none
    \/ gate.set \cap criteria.gates.set # {}

\* Mutant of PassesGate: a gate filter that is not given is taken to name no gate.
PassesGateNoDefault(criteria, gate) ==
    /\ criteria.kind = "GateCriteria"
    /\ criteria.gates.none \/ gate.set \cap criteria.gates.set # {}

\* gate=g keeps the gate criteria that apply to all gates or name g;
\* readout noise references no gate.
PassesGate(criteria, gate) ==
    \/ gate.none
    \/ /\ criteria.kind = "GateCriteria"
       /\ criteria.gates.none \/ gate.set \cap criteria.gates.set # {}

\* noise=N keeps the instructions whose channel is an N.
PassesNoise(channel, noise) ==
    noise.none \/ channel.class \in noise.set

RECURSIVE FilterLoop(_, _, _, _, _, _)
FilterLoop(model, qubit, gate, noise, j, acc) ==
    IF j > Len(model) THEN acc
    ELSE FilterLoop(model, qubit, gate, noise, j + 1,
             IF /\ PassesNoise(model[j].noise, noise)
                /\ PassesGate(model[j].criteria, gate)
                /\ PassesQubit(model[j].criteria, qubit)
             THEN Append(acc, model[j])
             ELSE acc)

from_filter(model, qubit, gate, noise) == FilterLoop(model, qubit, gate, noise, 1, <<>>)

----------------------------------------------------------------------------
(* Building models and circuits.                                           *)

\* Mutant of add_noise: an instruction the model holds already is not added.
add_noise_once(model, noise, criteria) ==
    IF \E i \in DOMAIN model : model[i] = NoiseModelInstruction(noise, criteria)
    THEN model
    ELSE Append(model, NoiseModelInstruction(noise, criteria))

\* model.add_noise(noise, criteria)
add_noise(model, noise, criteria) == Append(model, NoiseModelInstruction(noise, criteria))

\* circ.h(q), circ.x(q)
add_gate(circuit, gate, q) ==
    Circuit(Append(circuit.instructions, Instruction(gate, <<q>>)), circuit.result_types)

\* circ.sample(observable, target=q)
add_sample(circuit, observable, q) ==
    Circuit(circuit.instructions, Append(circuit.result_types, Sample(observable, <<q>>)))

----------------------------------------------------------------------------
(* What a printed circuit shows: per qubit, the operators in order.       *)

Touches(instr, q) == \E i \in DOMAIN instr.target : instr.target[i] = q

RECURSIVE Timeline(_, _)
Timeline(instructions, q) ==
    IF instructions = <<>> THEN <<>>
    ELSE IF Touches(Head(instructions), q)
         THEN <<Head(instructions).operator>> \o Timeline(Tail(instructions), q)
         ELSE Timeline(Tail(instructions), q)

Diagram(circuit, qubits) ==
    [rows |-> [q \in qubits |-> Timeline(circuit.instructions, q)],
     result_types |-> circuit.result_types]

\* The qubits a circuit acts on or reads out.
CircuitQubits(circuit) ==
    UNION {{circuit.instructions[i].target[t] : t \in DOMAIN circuit.instructions[i].target} :
              i \in DOMAIN circuit.instructions}
    \cup UNION {{circuit.result_types[k].target[t] : t \in DOMAIN circuit.result_types[k].target} :
                   k \in DOMAIN circuit.result_types}

qubit_count(circuit) == Cardinality(CircuitQubits(circuit))

----------------------------------------------------------------------------
(* NoiseModel.to_dict and NoiseModel.from_dict                             *)

\* A value of the dictionary that is None, or a list.
Null == [null |-> TRUE, list |-> <<>>]
List(l) == [null |-> FALSE, list |-> l]

\* The elements of a set as a list, and the set of the elements of a list.
SetToList(S) ==
    CHOOSE l \in [1..Cardinality(S) -> S] : {l[i] : i \in DOMAIN l} = S
ListToSet(l) == {l[i] : i \in DOMAIN l}

\* Mutant of FilterToDict: None is written as the empty list.
FilterToDictNoneAsEmpty(filter) == List(SetToList(filter.set))

\* 'gates': ['H'], 'qubits': None
FilterToDict(filter) ==
    IF filter.none THEN Null ELSE List(SetToList(filter.set))

FilterFromDict(value) ==
    IF value.null THEN None ELSE Some(ListToSet(value.list))

\* {'__class__': 'Depolarizing', 'probability': 0.1, 'qubit_count': 1, ...}
NoiseToDict(noise) ==
    [class |-> noise.class, parameters |-> noise.params, qubit_count |-> 1]

NoiseFromDict(d) == Operator(d.class, d.parameters)

\* {'__class__': 'GateCriteria', 'gates': ['H'], 'qubits': None}
CriteriaToDict(criteria) ==
    IF criteria.kind = "GateCriteria"
    THEN [class |-> "GateCriteria",
          gates |-> FilterToDict(criteria.gates),
          qubits |-> FilterToDict(criteria.qubits)]
    ELSE [class |-> "ObservableCriteria",
          observables |-> FilterToDict(criteria.observables),
          qubits |-> FilterToDict(criteria.qubits)]

CriteriaFromDict(d) ==
    IF d.class = "GateCriteria"
    THEN GateCriteria(FilterFromDict(d.gates), FilterFromDict(d.qubits))
    ELSE ObservableCriteria(FilterFromDict(d.observables), FilterFromDict(d.qubits))

\* {'instructions': [{'noise': {...}, 'criteria': {...}}, ...]}
to_dict(model) ==
    [instructions |->
        [i \in DOMAIN model |->
            [noise |-> NoiseToDict(model[i].noise),
             criteria |-> CriteriaToDict(model[i].criteria)]]]

\* NoiseModel().from_dict(model_dict)
from_dict(d) ==
    [i \in DOMAIN d.instructions |->
        NoiseModelInstruction(NoiseFromDict(d.instructions[i].noise),
                              CriteriaFromDict(d.instructions[i].criteria))]

----------------------------------------------------------------------------
(* Calls: what a call returns, and what it leaves of its receiver and of   *)
(* its argument.                                                           *)

\* Mutant of apply_call: the noise is added to the circuit of the caller.
apply_call_in_place(model, circuit) ==
    [self |-> model,
     circuit |-> apply(model, circuit),
     result |-> apply(model, circuit)]

\* noisy_circ = noise_model.apply(circ): circ is used again afterwards.
apply_call(model, circuit) ==
    [self |-> model,
     circuit |-> circuit,
     result |-> apply(model, circuit)]

\* Whether from_filter hands back its receiver rather than a new model.
FromFilterReturnsReceiver(model, result) == FALSE

\* reduced_noise_model = noise_model.from_filter(...): noise_model is
\* filtered again afterwards.
from_filter_call(model, qubit, gate, noise) ==
    LET result == from_filter(model, qubit, gate, noise)
    IN  [self |-> model,
         result |-> result,
         same_object |-> FromFilterReturnsReceiver(model, result)]

----------------------------------------------------------------------------
(* The notebook's cells: their models, circuits and printed outputs.       *)

\* circ = Circuit().h(0).s(1).h(2).y(0).x(1).z(2)
Cell5Circ ==
    Circuit(<<Instruction(Gate("H"), <<0>>), Instruction(Gate("S"), <<1>>),
              Instruction(Gate("H"), <<2>>), Instruction(Gate("Y"), <<0>>),
              Instruction(Gate("X"), <<1>>), Instruction(Gate("Z"), <<2>>)>>, <<>>)

\* noise_model.add_noise(Depolarizing(0.1), GateCriteria(Gate.H))
Cell3Model == add_noise(<<>>, Depolarizing(10), GateCriteria(Some({"H"}), None))

Cell6Printed ==
    [rows |-> (0 :> <<Gate("H"), Depolarizing(10), Gate("Y")>>
            @@ 1 :> <<Gate("S"), Gate("X")>>
            @@ 2 :> <<Gate("H"), Depolarizing(10), Gate("Z")>>),
     result_types |-> <<>>]

\* noise_model_2 = NoiseModel().add_noise(BitFlip(0.2), criteria=GateCriteria(Gate.H, 0))
Cell7Model2 == add_noise(<<>>, BitFlip(20), GateCriteria(Some({"H"}), Some({0})))

Cell7Printed ==
    [rows |-> (0 :> <<Gate("H"), BitFlip(20), Depolarizing(10), Gate("Y")>>
            @@ 1 :> <<Gate("S"), Gate("X")>>
            @@ 2 :> <<Gate("H"), Depolarizing(10), Gate("Z")>>),
     result_types |-> <<>>]

\* ... add_noise(AmplitudeDamping(0.1), GateCriteria(qubits=0))
\* ... add_noise(PauliChannel(0.1, 0.2, 0.3), GateCriteria(gates=Gate.X, qubits=1))
Cell9Model ==
    add_noise(add_noise(Cell3Model,
        AmplitudeDamping(10), GateCriteria(None, Some({0}))),
        PauliChannel(10, 20, 30), GateCriteria(Some({"X"}), Some({1})))

Cell10Printed ==
    [rows |-> (0 :> <<Gate("H"), Depolarizing(10), AmplitudeDamping(10),
                      Gate("Y"), AmplitudeDamping(10)>>
            @@ 1 :> <<Gate("S"), Gate("X"), PauliChannel(10, 20, 30)>>
            @@ 2 :> <<Gate("H"), Depolarizing(10), Gate("Z")>>),
     result_types |-> <<>>]

\* noise_model.add_noise(BitFlip(0.01), ObservableCriteria(qubits=[1, 2]))
Cell11Model == add_noise(<<>>, BitFlip(1), ObservableCriteria(None, Some({1, 2})))

Cell12Printed ==
    [rows |-> (0 :> <<Gate("H"), Gate("Y")>>
            @@ 1 :> <<Gate("S"), Gate("X")>>
            @@ 2 :> <<Gate("H"), Gate("Z")>>),
     result_types |-> <<>>]

\* circ.sample(Observable.X(), target=0); circ.sample(Observable.Z(), target=1)
Cell13Circ == add_sample(add_sample(Cell5Circ, "X", 0), "Z", 1)

\* PhaseFlip(0.02) on ObservableCriteria(Observable.X, 0),
\* BitFlip(0.01) on ObservableCriteria(Observable.Z, 1)
Cell14Model ==
    add_noise(add_noise(<<>>,
        PhaseFlip(2), ObservableCriteria(Some({"X"}), Some({0}))),
        BitFlip(1), ObservableCriteria(Some({"Z"}), Some({1})))

Cell15Printed ==
    [rows |-> (0 :> <<Gate("H"), Gate("Y"), PhaseFlip(2)>>
            @@ 1 :> <<Gate("S"), Gate("X"), BitFlip(1)>>
            @@ 2 :> <<Gate("H"), Gate("Z")>>),
     result_types |-> <<Sample("X", <<0>>), Sample("Z", <<1>>)>>]

\* The large noise model of the filtering section.
Cell16Model ==
    <<NoiseModelInstruction(Depolarizing(10), GateCriteria(Some({"H"}), None)),
      NoiseModelInstruction(Depolarizing(10), GateCriteria(None, None)),
      NoiseModelInstruction(AmplitudeDamping(10), GateCriteria(None, Some({0}))),
      NoiseModelInstruction(PauliChannel(10, 20, 30), GateCriteria(Some({"X"}), Some({0}))),
      NoiseModelInstruction(PhaseFlip(2), ObservableCriteria(Some({"X"}), Some({0}))),
      NoiseModelInstruction(BitFlip(1), ObservableCriteria(Some({"Z"}), Some({1})))>>

\* noise_model.from_filter(qubit=0)
Cell17Printed == SubSeq(Cell16Model, 1, 5)
\* noise_model.from_filter(gate=Gate.H)
Cell18Printed == SubSeq(Cell16Model, 1, 3)
\* noise_model.from_filter(noise=BitFlip)
Cell19Printed == SubSeq(Cell16Model, 6, 6)
\* noise_model.from_filter(gate=Gate.H, qubit=1)
Cell20Printed == SubSeq(Cell16Model, 1, 2)

\* noise_model.to_dict()
Cell21Printed ==
    LET GateDict(gates, qubits) ==
            [class |-> "GateCriteria", gates |-> gates, qubits |-> qubits]
        ObservableDict(observables, qubits) ==
            [class |-> "ObservableCriteria", observables |-> observables,
             qubits |-> qubits]
        NoiseDict(class, parameters) ==
            [class |-> class, parameters |-> parameters, qubit_count |-> 1]
        Entry(noise, criteria) == [noise |-> noise, criteria |-> criteria]
    IN  [instructions |->
          <<Entry(NoiseDict("Depolarizing", <<10>>), GateDict(List(<<"H">>), Null)),
            Entry(NoiseDict("Depolarizing", <<10>>), GateDict(Null, Null)),
            Entry(NoiseDict("AmplitudeDamping", <<10>>), GateDict(Null, List(<<0>>))),
            Entry(NoiseDict("PauliChannel", <<10, 20, 30>>),
                  GateDict(List(<<"X">>), List(<<0>>))),
            Entry(NoiseDict("PhaseFlip", <<2>>),
                  ObservableDict(List(<<"X">>), List(<<0>>))),
            Entry(NoiseDict("BitFlip", <<1>>),
                  ObservableDict(List(<<"Z">>), List(<<1>>)))>>]

\* print(NoiseModel().from_dict(model_dict))
Cell23Printed == Cell16Model

\* The model reproduces every printed output of the notebook.
NotebookOutputs ==
    LET Q == {0, 1, 2}
    IN  /\ Diagram(apply(Cell3Model, Cell5Circ), Q) = Cell6Printed
        /\ Diagram(apply(Cell7Model2, apply(Cell3Model, Cell5Circ)), Q) = Cell7Printed
        /\ Diagram(apply(Cell9Model, Cell5Circ), Q) = Cell10Printed
        /\ Diagram(apply(Cell11Model, Cell5Circ), Q) = Cell12Printed
        /\ Diagram(apply(Cell14Model, Cell13Circ), Q) = Cell15Printed
        /\ from_filter(Cell16Model, Some({0}), None, None) = Cell17Printed
        /\ from_filter(Cell16Model, None, Some({"H"}), None) = Cell18Printed
        /\ from_filter(Cell16Model, None, None, Some({"BitFlip"})) = Cell19Printed
        /\ from_filter(Cell16Model, Some({1}), Some({"H"}), None) = Cell20Printed
        /\ from_filter(Cell16Model, None, None, None) = Cell16Model
        \* circ is applied to a second time, noise_model is filtered four times
        /\ Diagram(apply_call(Cell9Model,
                       apply_call(Cell3Model, Cell5Circ).circuit).result, Q)
               = Cell10Printed
        /\ from_filter_call(
               from_filter_call(
                   from_filter_call(Cell16Model, Some({0}), None, None).self,
                   None, Some({"H"}), None).self,
               None, None, Some({"BitFlip"})).result = Cell19Printed
        /\ to_dict(Cell16Model) = Cell21Printed
        /\ from_dict(Cell21Printed) = Cell23Printed

----------------------------------------------------------------------------
(* The sessions.                                                           *)

\* from_filter() with no argument.
NoCall == [qubit |-> None, gate |-> None, noise |-> None]

Init ==
    /\ pc = "build"
    /\ noise_model = <<>>
    /\ circ = EmptyCircuit
    /\ noisy_circ = EmptyCircuit
    /\ noise_model_2 = <<>>
    /\ noisy_circ_2 = EmptyCircuit
    /\ reduced_noise_model = <<>>
    /\ filter_args = NoCall
    /\ model_dict = [instructions |-> <<>>]
    /\ loaded_model = <<>>
    /\ calls = <<>>
    /\ same_object = FALSE
    /\ matches = FALSE

Size == Len(noise_model) + Len(noise_model_2)
        + Len(circ.instructions) + Len(circ.result_types)

\* One result type per qubit.
Unobserved(circuit, q) ==
    \A k \in DOMAIN circuit.result_types : circuit.result_types[k].target # <<q>>

(* Spec: one model applied to one circuit. *)

AddNoise ==
    /\ pc = "build"
    /\ Len(noise_model) < MaxInstr
    /\ Size < MaxSize
    /\ \E n \in Noises, c \in CriteriaPool :
           noise_model' = add_noise(noise_model, n, c)
    /\ UNCHANGED <<pc, circ, noisy_circ, noise_model_2, noisy_circ_2,
                   reduced_noise_model, filter_args, dict_vars, same_object, matches>>

AddGate ==
    /\ pc = "build"
    /\ Size < MaxSize
    /\ \E g \in Gates, q \in Qubits : circ' = add_gate(circ, Gate(g), q)
    /\ UNCHANGED <<pc, noise_model, noisy_circ, noise_model_2, noisy_circ_2,
                   reduced_noise_model, filter_args, dict_vars, same_object, matches>>

AddSample ==
    /\ pc = "build"
    /\ Size < MaxSize
    /\ \E o \in Observables, q \in SampledQubits :
        /\ Unobserved(circ, q)
        /\ circ' = add_sample(circ, o, q)
    /\ UNCHANGED <<pc, noise_model, noisy_circ, noise_model_2, noisy_circ_2,
                   reduced_noise_model, filter_args, dict_vars, same_object, matches>>

\* noisy_circ = noise_model.apply(circ)
Apply ==
    /\ pc = "build"
    /\ noisy_circ' = apply(noise_model, circ)
    /\ pc' = "applied"
    /\ UNCHANGED <<noise_model, circ, noise_model_2, noisy_circ_2,
                   reduced_noise_model, filter_args, dict_vars, same_object, matches>>

Next ==
    \/ AddNoise
    \/ AddGate
    \/ AddSample
    \/ Apply

Spec == Init /\ [][Next]_vars

(* SpecSeq: two models applied one after the other. *)

SeqAddNoise ==
    /\ pc = "build"
    /\ Len(noise_model) < MaxSeqInstr
    /\ Size < MaxSeqSize
    /\ \E n \in Noises, c \in CriteriaPool :
           noise_model' = add_noise(noise_model, n, c)
    /\ UNCHANGED <<pc, circ, noisy_circ, noise_model_2, noisy_circ_2,
                   reduced_noise_model, filter_args, dict_vars, same_object, matches>>

SeqAddNoise2 ==
    /\ pc = "build"
    /\ Len(noise_model_2) < MaxSeqInstr
    /\ Size < MaxSeqSize
    /\ \E n \in Noises, c \in CriteriaPool :
           noise_model_2' = add_noise(noise_model_2, n, c)
    /\ UNCHANGED <<pc, noise_model, circ, noisy_circ, noisy_circ_2,
                   reduced_noise_model, filter_args, dict_vars, same_object, matches>>

SeqAddGate ==
    /\ pc = "build"
    /\ Size < MaxSeqSize
    /\ \E g \in Gates, q \in Qubits : circ' = add_gate(circ, Gate(g), q)
    /\ UNCHANGED <<pc, noise_model, noisy_circ, noise_model_2, noisy_circ_2,
                   reduced_noise_model, filter_args, dict_vars, same_object, matches>>

SeqAddSample ==
    /\ pc = "build"
    /\ Size < MaxSeqSize
    /\ \E o \in Observables, q \in SampledQubits :
        /\ Unobserved(circ, q)
        /\ circ' = add_sample(circ, o, q)
    /\ UNCHANGED <<pc, noise_model, noisy_circ, noise_model_2, noisy_circ_2,
                   reduced_noise_model, filter_args, dict_vars, same_object, matches>>

\* noisy_circ_2 = noise_model_2.apply(noisy_circ)
Apply2 ==
    /\ pc = "applied"
    /\ noisy_circ_2' = apply(noise_model_2, noisy_circ)
    /\ pc' = "applied2"
    /\ UNCHANGED <<noise_model, circ, noisy_circ, noise_model_2,
                   reduced_noise_model, filter_args, dict_vars, same_object, matches>>

NextSeq ==
    \/ SeqAddNoise
    \/ SeqAddNoise2
    \/ SeqAddGate
    \/ SeqAddSample
    \/ Apply
    \/ Apply2

SpecSeq == Init /\ [][NextSeq]_vars

(* SpecFilter: a model and its filtered models. *)

FilterAddNoise ==
    /\ pc = "build"
    /\ Len(noise_model) < MaxFilterInstr
    /\ \E n \in Noises, c \in FilterCriteriaPool :
           noise_model' = add_noise(noise_model, n, c)
    /\ UNCHANGED <<pc, circ, noisy_circ, noise_model_2, noisy_circ_2,
                   reduced_noise_model, filter_args, dict_vars, same_object, matches>>

FilterValues(S) == {None} \cup {Some({x}) : x \in S}

\* reduced_noise_model = noise_model.from_filter(qubit=..., gate=..., noise=...)
FromFilter ==
    /\ pc = "build"
    /\ \E q \in FilterValues(Qubits), g \in FilterValues(Gates), n \in FilterValues({"Depolarizing", "BitFlip"}) :
        /\ reduced_noise_model' = from_filter(noise_model, q, g, n)
        /\ filter_args' = [qubit |-> q, gate |-> g, noise |-> n]
    /\ pc' = "filtered"
    /\ UNCHANGED <<noise_model, circ, noisy_circ, noise_model_2, noisy_circ_2,
                   dict_vars, same_object, matches>>

NextFilter ==
    \/ FilterAddNoise
    \/ FromFilter

SpecFilter == Init /\ [][NextFilter]_vars

(* SpecDict: a model built by add_noise calls, saved and loaded. *)

\* The channels and criteria of the saved models: also a channel of
\* three parameters, and filters that name two gates or two qubits.
DictNoises == {Depolarizing(10), PauliChannel(10, 20, 30)}

DictCriteriaPool ==
    {GateCriteria(g, q) : g \in GateFilters \cup {Some({"H", "S"})},
                          q \in FilterQubitFilters}
    \cup {ObservableCriteria(o, q) : o \in ObservableFilters,
                                      q \in FilterQubitFilters}

\* noise_model.add_noise(noise, criteria)
DictAddNoise ==
    /\ pc = "build"
    /\ Len(noise_model) < MaxDictInstr
    /\ \E n \in DictNoises, c \in DictCriteriaPool :
        /\ noise_model' = add_noise(noise_model, n, c)
        /\ calls' = Append(calls, <<n, c>>)
    /\ UNCHANGED <<pc, circ, noisy_circ, noise_model_2, noisy_circ_2,
                   reduced_noise_model, filter_args, model_dict, loaded_model,
                   same_object, matches>>

\* json.dump(noise_model.to_dict(), ...); model_dict = json.load(...)
ToDict ==
    /\ pc = "build"
    /\ model_dict' = to_dict(noise_model)
    /\ pc' = "saved"
    /\ UNCHANGED <<noise_model, circ, noisy_circ, noise_model_2, noisy_circ_2,
                   reduced_noise_model, filter_args, loaded_model, calls,
                   same_object, matches>>

\* NoiseModel().from_dict(model_dict)
FromDict ==
    /\ pc = "saved"
    /\ loaded_model' = from_dict(model_dict)
    /\ pc' = "loaded"
    /\ UNCHANGED <<noise_model, circ, noisy_circ, noise_model_2, noisy_circ_2,
                   reduced_noise_model, filter_args, model_dict, calls,
                   same_object, matches>>

NextDict ==
    \/ DictAddNoise
    \/ ToDict
    \/ FromDict

SpecDict == Init /\ [][NextDict]_vars

(* SpecMatch: one gate criteria evaluated against one operation.          *)

\* The criteria: filters that are None, empty, or name one or two elements.
MatchCriteria ==
    {GateCriteria(g, q) :
        g \in {None, Some({}), Some({"H"}), Some({"H", "CNot"})},
        q \in {None, Some({}), Some({0}), Some({1}), Some({0, 1})}}

\* The operations: gates on one qubit, a gate on two qubits, a noise channel.
MatchOperations ==
    {Instruction(Gate(g), <<q>>) : g \in Gates, q \in Qubits}
    \cup {Instruction(Gate("CNot"), t) : t \in {<<0, 1>>, <<1, 0>>, <<1, 2>>}}
    \cup {Instruction(Depolarizing(10), <<0>>)}

InitMatch ==
    /\ pc = "build"
    /\ \E c \in MatchCriteria :
           noise_model = <<NoiseModelInstruction(Depolarizing(10), c)>>
    /\ \E op \in MatchOperations : circ = Circuit(<<op>>, <<>>)
    /\ noisy_circ = EmptyCircuit
    /\ noise_model_2 = <<>>
    /\ noisy_circ_2 = EmptyCircuit
    /\ reduced_noise_model = <<>>
    /\ filter_args = NoCall
    /\ model_dict = [instructions |-> <<>>]
    /\ loaded_model = <<>>
    /\ calls = <<>>
    /\ same_object = FALSE
    /\ matches = FALSE

\* Whether the criteria of the instruction applies to the operation.
Matches ==
    /\ pc = "build"
    /\ matches' = GateCriteriaMatches(noise_model[1].criteria, circ.instructions[1])
    /\ pc' = "matched"
    /\ UNCHANGED <<noise_model, circ, noisy_circ, noise_model_2, noisy_circ_2,
                   reduced_noise_model, filter_args, dict_vars, same_object>>

NextMatch == Matches

SpecMatch == InitMatch /\ [][NextMatch]_vars

(* SpecFrame: a model and a circuit that are used again after a call, as   *)
(* the notebook does: pc is the last thing the session did.                *)

\* The criteria of the models that are used again.
FrameCriteriaPool ==
    {GateCriteria(Some({"H"}), None), GateCriteria(None, Some({0})),
     ObservableCriteria(Some({"Z"}), None)}

\* noise_model.add_noise(noise, criteria), also after apply or from_filter
FrameAddNoise ==
    /\ Size < MaxFrameSize
    /\ \E n \in Noises, c \in FrameCriteriaPool :
           noise_model' = add_noise(noise_model, n, c)
    /\ reduced_noise_model' =
           IF same_object THEN noise_model' ELSE reduced_noise_model
    /\ pc' = "build"
    /\ UNCHANGED <<circ, noisy_circ, noise_model_2, noisy_circ_2, filter_args,
                   dict_vars, same_object, matches>>

FrameAddGate ==
    /\ Size < MaxFrameSize
    /\ \E g \in Gates, q \in SampledQubits : circ' = add_gate(circ, Gate(g), q)
    /\ pc' = "build"
    /\ UNCHANGED <<noise_model, noisy_circ, noise_model_2, noisy_circ_2,
                   reduced_noise_model, filter_args, dict_vars, same_object, matches>>

FrameAddSample ==
    /\ Size < MaxFrameSize
    /\ \E o \in Observables, q \in SampledQubits :
        /\ Unobserved(circ, q)
        /\ circ' = add_sample(circ, o, q)
    /\ pc' = "build"
    /\ UNCHANGED <<noise_model, noisy_circ, noise_model_2, noisy_circ_2,
                   reduced_noise_model, filter_args, dict_vars, same_object, matches>>

\* noisy_circ = noise_model.apply(circ)
FrameApply ==
    /\ LET call == apply_call(noise_model, circ)
       IN  /\ noise_model' = call.self
           /\ circ' = call.circuit
           /\ noisy_circ' = call.result
           /\ reduced_noise_model' =
                  IF same_object THEN call.self ELSE reduced_noise_model
    /\ pc' = "applied"
    /\ UNCHANGED <<noise_model_2, noisy_circ_2, filter_args, dict_vars,
                   same_object, matches>>

\* reduced_noise_model = noise_model.from_filter(qubit=..., gate=...)
FrameFromFilter ==
    /\ \E q \in QubitFilters, g \in GateFilters :
        LET call == from_filter_call(noise_model, q, g, None)
        IN  /\ noise_model' = call.self
            /\ reduced_noise_model' = call.result
            /\ same_object' = call.same_object
            /\ filter_args' = [qubit |-> q, gate |-> g, noise |-> None]
    /\ pc' = "filtered"
    /\ UNCHANGED <<circ, noisy_circ, noise_model_2, noisy_circ_2, dict_vars,
                   matches>>

NextFrame ==
    \/ FrameAddNoise
    \/ FrameAddGate
    \/ FrameAddSample
    \/ FrameApply
    \/ FrameFromFilter

SpecFrame == Init /\ [][NextFrame]_vars

----------------------------------------------------------------------------
(* Reading a circuit back: where its gates are, and what follows them.     *)

\* The indices of the gates (the instructions that are no noise channel).
RECURSIVE GateIndices(_, _)
GateIndices(instructions, p) ==
    IF p > Len(instructions) THEN <<>>
    ELSE IF IsNoise(instructions[p])
         THEN GateIndices(instructions, p + 1)
         ELSE <<p>> \o GateIndices(instructions, p + 1)

\* What stands between the g-th gate and the next one (or the end).
Segment(instructions, g) ==
    LET idx == GateIndices(instructions, 1)
    IN  IF g > Len(idx) THEN <<>>
        ELSE SubSeq(instructions, idx[g] + 1,
                    IF g < Len(idx) THEN idx[g + 1] - 1 ELSE Len(instructions))

\* The instructions of the model whose gate criteria match instr.
GateMatches(model, instr) ==
    {j \in DOMAIN model : GateCriteriaMatches(model[j].criteria, instr)}

\* The instructions of the model whose observable criteria match result_type.
ReadoutMatches(model, result_type) ==
    {j \in DOMAIN model : ObservableCriteriaMatches(model[j].criteria, result_type)}

\* The (result type, instruction) pairs that match.
ReadoutPairs(model, circuit) ==
    {<<k, j>> \in (DOMAIN circuit.result_types) \X (DOMAIN model) :
        j \in ReadoutMatches(model, circuit.result_types[k])}

\* The n-th smallest element of a set of numbers.
Rank(S, j) == Cardinality({x \in S : x <= j})

\* The noise that follows the g-th gate of the noisy circuit because of a
\* gate criteria: its segment, less the readout noise that ends the circuit.
GateSegment(model, circuit, noisy, g) ==
    LET seg == Segment(noisy.instructions, g)
    IN  IF g < Len(circuit.instructions) THEN seg
        ELSE SubSeq(seg, 1, Len(seg) - Cardinality(ReadoutPairs(model, circuit)))

Applied == pc = "applied"

----------------------------------------------------------------------------
(* C1: when several instructions of the model match the same operation,    *)
(* their noise follows that operation in the order of the instructions in  *)
(* the model, the earlier-added first, whatever their criteria.            *)
C1_ModelOrder ==
    Applied =>
        \A g \in DOMAIN circ.instructions :
            LET J == GateMatches(noise_model, circ.instructions[g])
                seg == GateSegment(noise_model, circ, noisy_circ, g)
            IN  /\ Len(seg) = Cardinality(J)
                /\ \A j \in J : seg[Rank(J, j)].operator = noise_model[j].noise

\* Two instructions with different channels match the same gate, the
\* first with the more specific criteria.
C1_Witness ==
    /\ Applied
    /\ \E g \in DOMAIN circ.instructions :
        \E j, k \in GateMatches(noise_model, circ.instructions[g]) :
            /\ j < k
            /\ noise_model[j].noise # noise_model[k].noise
            /\ ~noise_model[j].criteria.qubits.none
            /\ noise_model[k].criteria.qubits.none
            /\ noise_model[k].criteria.gates.none

----------------------------------------------------------------------------
(* C2 (amended): the noise of a gate criteria match is on the qubits of    *)
(* the operation that triggered it, after that operation and before any    *)
(* later operation of the circuit; nothing is placed after an operation    *)
(* that no instruction matches, and nothing before the first operation.    *)
(* Depolarizing(0.1) on GateCriteria({H}, None) applied to H(q0), S(q1),   *)
(* H(q2) yields the five items H(q0), Depolarizing(0.1)@q0, S(q1), H(q2),  *)
(* Depolarizing(0.1)@q2.                                                   *)
C2_PlacedAfterTrigger ==
    Applied =>
        /\ Len(GateIndices(noisy_circ.instructions, 1)) = Len(circ.instructions)
        /\ circ.instructions # <<>> => ~IsNoise(noisy_circ.instructions[1])
        /\ \A g \in DOMAIN circ.instructions :
            LET op == circ.instructions[g]
                J == GateMatches(noise_model, op)
                seg == GateSegment(noise_model, circ, noisy_circ, g)
            IN  /\ Len(seg) = Cardinality(J)
                /\ \A r \in DOMAIN seg :
                    /\ IsNoise(seg[r])
                    /\ seg[r].target = op.target
                    /\ \E j \in J : noise_model[j].noise = seg[r].operator

\* The example: the model of cell 3 applied to H(q0), S(q1), H(q2).
C2_Example ==
    /\ Applied
    /\ noise_model = Cell3Model
    /\ circ = Circuit(<<Instruction(Gate("H"), <<0>>), Instruction(Gate("S"), <<1>>),
                        Instruction(Gate("H"), <<2>>)>>, <<>>)

C2_Placement ==
    /\ C2_PlacedAfterTrigger
    /\ C2_Example =>
        noisy_circ.instructions =
            <<Instruction(Gate("H"), <<0>>), Instruction(Depolarizing(10), <<0>>),
              Instruction(Gate("S"), <<1>>),
              Instruction(Gate("H"), <<2>>), Instruction(Depolarizing(10), <<2>>)>>

\* The example has been applied: a matched gate, an unmatched one, a matched
\* one on another qubit.
C2_Witness ==
    /\ C2_Example
    /\ GateMatches(noise_model, circ.instructions[1]) # {}
    /\ GateMatches(noise_model, circ.instructions[2]) = {}
    /\ GateMatches(noise_model, circ.instructions[3]) # {}

\* C2 as stated: the same placement, the example counted as six items.
C2_Original ==
    /\ C2_PlacedAfterTrigger
    /\ C2_Example => Len(noisy_circ.instructions) = 6

----------------------------------------------------------------------------
(* C4: applying an empty model, or a model none of whose criteria match    *)
(* an operation or a result type of the circuit, returns a circuit equal   *)
(* to the input circuit.                                                   *)
NothingMatches(model, circuit) ==
    /\ \A g \in DOMAIN circuit.instructions :
           GateMatches(model, circuit.instructions[g]) = {}
    /\ \A k \in DOMAIN circuit.result_types :
           ReadoutMatches(model, circuit.result_types[k]) = {}

C4_Identity ==
    (Applied /\ NothingMatches(noise_model, circ)) => noisy_circ = circ

\* A model with gate and observable criteria, none of which matches the
\* gates and the result type of the circuit.
C4_Witness ==
    /\ Applied
    /\ NothingMatches(noise_model, circ)
    /\ circ.instructions # <<>>
    /\ circ.result_types # <<>>
    /\ \E j, k \in DOMAIN noise_model :
        /\ noise_model[j].criteria.kind = "GateCriteria"
        /\ noise_model[k].criteria.kind = "ObservableCriteria"

----------------------------------------------------------------------------
(* C7: every result type of the circuit gets, for every instruction whose  *)
(* observable criteria match it, one readout noise on its qubits, after    *)
(* all the gates on those qubits; several matches on one result type come  *)
(* in model order, and an unmatched result type gets no readout noise.     *)

\* The last n instructions of a circuit.
Ending(instructions, n) ==
    SubSeq(instructions, Len(instructions) - n + 1, Len(instructions))

\* The instructions of a sequence on the given target.
RECURSIVE OnTarget(_, _)
OnTarget(instructions, target) ==
    IF instructions = <<>> THEN <<>>
    ELSE IF Head(instructions).target = target
         THEN <<Head(instructions)>> \o OnTarget(Tail(instructions), target)
         ELSE OnTarget(Tail(instructions), target)

C7_Readout ==
    Applied =>
        LET n == Cardinality(ReadoutPairs(noise_model, circ))
            tail == Ending(noisy_circ.instructions, n)
        IN  /\ Len(noisy_circ.instructions) >= n
            /\ Len(tail) = n
            /\ \A r \in DOMAIN tail :
                /\ IsNoise(tail[r])
                /\ \E k \in DOMAIN circ.result_types :
                       circ.result_types[k].target = tail[r].target
            /\ \A k \in DOMAIN circ.result_types :
                LET J == ReadoutMatches(noise_model, circ.result_types[k])
                    mine == OnTarget(tail, circ.result_types[k].target)
                IN  /\ Len(mine) = Cardinality(J)
                    /\ \A j \in J : mine[Rank(J, j)].operator = noise_model[j].noise
            /\ noisy_circ.result_types = circ.result_types

\* Two instructions with different channels match the same result type, on
\* a qubit that carries a gate; another qubit is not read out.
C7_Witness ==
    /\ Applied
    /\ \E k \in DOMAIN circ.result_types :
        /\ \E j1, j2 \in ReadoutMatches(noise_model, circ.result_types[k]) :
               j1 < j2 /\ noise_model[j1].noise # noise_model[j2].noise
        /\ \E g \in DOMAIN circ.instructions :
               circ.instructions[g].target = circ.result_types[k].target
        /\ Len(noisy_circ.instructions) = 3

\* One result type is matched and another is not.
C7_WitnessUnmatched ==
    /\ Applied
    /\ \E k1, k2 \in DOMAIN circ.result_types :
        /\ ReadoutMatches(noise_model, circ.result_types[k1]) # {}
        /\ ReadoutMatches(noise_model, circ.result_types[k2]) = {}

----------------------------------------------------------------------------
(* C3: apply keeps the qubit count, and its output without the noise it    *)
(* inserted is the input's operation sequence: nothing dropped,            *)
(* duplicated or reordered. Checked for a circuit of gates and for a       *)
(* circuit that already holds noise.                                       *)

\* The gates of a sequence of instructions, in order.
RECURSIVE GatesOf(_)
GatesOf(instructions) ==
    IF instructions = <<>> THEN <<>>
    ELSE IF IsNoise(Head(instructions)) THEN GatesOf(Tail(instructions))
         ELSE <<Head(instructions)>> \o GatesOf(Tail(instructions))

\* Whether a results from b by removing elements.
RECURSIVE IsSubsequence(_, _)
IsSubsequence(a, b) ==
    IF a = <<>> THEN TRUE
    ELSE IF b = <<>> THEN FALSE
    ELSE IF Head(a) = Head(b) THEN IsSubsequence(Tail(a), Tail(b))
         ELSE IsSubsequence(a, Tail(b))

\* Removing noise channels from the output gives the input, and no gate
\* was added or lost.
Preserved(input, output) ==
    /\ IsSubsequence(input.instructions, output.instructions)
    /\ GatesOf(output.instructions) = GatesOf(input.instructions)
    /\ qubit_count(output) = qubit_count(input)

C3_Preserved ==
    /\ pc \in {"applied", "applied2"} => Preserved(circ, noisy_circ)
    /\ pc = "applied2" => Preserved(noisy_circ, noisy_circ_2)

\* Both applications inserted noise, the second into a circuit that held
\* noise already.
C3_Witness ==
    /\ pc = "applied2"
    /\ Len(noisy_circ.instructions) > Len(circ.instructions)
    /\ Len(noisy_circ_2.instructions) > Len(noisy_circ.instructions)

----------------------------------------------------------------------------
(* C5: when model2 is applied to the output of model1, the noise of        *)
(* model2 stands directly after each gate it matches, in model order, and  *)
(* what followed the gate before (the noise model1 had inserted) comes     *)
(* after it.                                                               *)
C5_DirectlyAfterGate ==
    pc = "applied2" =>
        LET in == noisy_circ.instructions
            out == noisy_circ_2.instructions
            gin == GateIndices(in, 1)
            gout == GateIndices(out, 1)
        IN  /\ Len(gout) = Len(gin)
            /\ \A g \in DOMAIN gin :
                LET p == gin[g]
                    P == gout[g]
                    J == GateMatches(noise_model_2, in[p])
                    k == Cardinality(J)
                IN  /\ out[P] = in[p]
                    /\ P + k <= Len(out)
                    /\ \A j \in J :
                           out[P + Rank(J, j)] =
                               Instruction(noise_model_2[j].noise, in[p].target)
                    /\ p < Len(in) =>
                        /\ P + k + 1 <= Len(out)
                        /\ out[P + k + 1] = in[p + 1]

\* A gate that both models match, with different channels: the noise of
\* model1 follows it in noisy_circ, the noise of model2 in noisy_circ_2.
C5_Witness ==
    /\ pc = "applied2"
    /\ \E p \in DOMAIN noisy_circ.instructions :
        /\ ~IsNoise(noisy_circ.instructions[p])
        /\ GateMatches(noise_model, noisy_circ.instructions[p]) # {}
        /\ GateMatches(noise_model_2, noisy_circ.instructions[p]) # {}
        /\ p < Len(noisy_circ.instructions)
        /\ IsNoise(noisy_circ.instructions[p + 1])
        /\ \A j \in DOMAIN noise_model_2 :
               noise_model_2[j].noise # noisy_circ.instructions[p + 1].operator

----------------------------------------------------------------------------
(* C6 (amended): when no gate criteria of either model matches a noise     *)
(* operation the other inserts, model2.apply(model1.apply(C)) has, on      *)
(* every qubit, the operations of applying to C the single model made of   *)
(* the gate criteria instructions of model2, then the instructions of      *)
(* model1, then the observable criteria instructions of model2; the        *)
(* result types are those of C.                                            *)

\* The instructions of a model with the given kind of criteria, in order.
RECURSIVE OfKind(_, _)
OfKind(model, kind) ==
    IF model = <<>> THEN <<>>
    ELSE IF Head(model).criteria.kind = kind
         THEN <<Head(model)>> \o OfKind(Tail(model), kind)
         ELSE OfKind(Tail(model), kind)

\* No gate criteria of model b matches a noise operation that model a
\* inserts into the circuit.
NoMatchOnNoiseOf(a, b, circuit) ==
    LET out == apply(a, circuit).instructions
    IN  \A p \in DOMAIN out :
            IsNoise(out[p]) => GateMatches(b, out[p]) = {}

NoCrossMatch ==
    /\ NoMatchOnNoiseOf(noise_model, noise_model_2, circ)
    /\ NoMatchOnNoiseOf(noise_model_2, noise_model, circ)

\* The same operations in the same order on every qubit, and the same
\* result types: what two printed circuits can be told apart by.
SameCircuit(a, b) == Diagram(a, Qubits) = Diagram(b, Qubits)

C6_Model2GateNoiseFirst ==
    (pc = "applied2" /\ NoCrossMatch) =>
        SameCircuit(noisy_circ_2,
            apply(OfKind(noise_model_2, "GateCriteria") \o noise_model
                      \o OfKind(noise_model_2, "ObservableCriteria"), circ))

\* Both models put noise with different channels after the same gate, and
\* neither matches the noise of the other.
C6_Witness ==
    /\ pc = "applied2"
    /\ NoCrossMatch
    /\ \E g \in DOMAIN circ.instructions :
        /\ GateMatches(noise_model, circ.instructions[g]) # {}
        /\ GateMatches(noise_model_2, circ.instructions[g]) # {}
        /\ \A j \in DOMAIN noise_model, k \in DOMAIN noise_model_2 :
               noise_model[j].noise # noise_model_2[k].noise

\* C6 as stated: the single model is model1's instructions followed by
\* model2's.
C6_Original ==
    (pc = "applied2" /\ NoCrossMatch) =>
        SameCircuit(noisy_circ_2, apply(noise_model \o noise_model_2, circ))

----------------------------------------------------------------------------
(* The filtering claims read the last from_filter call.                    *)

Filtered == pc = "filtered"

\* The call gave only qubit=q, only gate=g, or nothing.
OnlyQubit == ~filter_args.qubit.none /\ filter_args.gate.none /\ filter_args.noise.none
OnlyGate == filter_args.qubit.none /\ ~filter_args.gate.none /\ filter_args.noise.none

\* The value of a filter that was given.
Given(filter) == CHOOSE x \in filter.set : TRUE

----------------------------------------------------------------------------
(* C8: from_filter(qubit=q) returns, in their order in the model, exactly  *)
(* the instructions whose criteria (gate or observable) have qubits=None   *)
(* or have q among their qubits.                                           *)
C8_QubitFilter ==
    (Filtered /\ OnlyQubit) =>
        LET q == Given(filter_args.qubit)
            Keep(instr) == instr.criteria.qubits.none \/ q \in instr.criteria.qubits.set
        IN  reduced_noise_model = SelectSeq(noise_model, Keep)

\* A model with criteria on all qubits, observable criteria that name q and
\* criteria that name another qubit only, filtered by qubit=q.
C8_Witness ==
    /\ Filtered /\ OnlyQubit
    /\ Len(noise_model) = 3
    /\ noise_model[1].criteria.qubits.none
    /\ ~noise_model[2].criteria.qubits.none
    /\ Given(filter_args.qubit) \notin noise_model[2].criteria.qubits.set
    /\ noise_model[3].criteria.kind = "ObservableCriteria"
    /\ Given(filter_args.qubit) \in noise_model[3].criteria.qubits.set
    /\ reduced_noise_model = <<noise_model[1], noise_model[3]>>

----------------------------------------------------------------------------
(* C9 (amended): from_filter(gate=g) keeps a GateCriteria instruction iff  *)
(* its gates are None or contain g, and keeps no ObservableCriteria        *)
(* instruction; the kept instructions are in their order in the model.     *)
C9_GateFilter ==
    (Filtered /\ OnlyGate) =>
        LET g == Given(filter_args.gate)
            Keep(instr) ==
                /\ instr.criteria.kind = "GateCriteria"
                /\ instr.criteria.gates.none \/ g \in instr.criteria.gates.set
        IN  reduced_noise_model = SelectSeq(noise_model, Keep)

\* Gate criteria on all gates, gate criteria that name another gate and
\* observable criteria, filtered by gate=g: only the first is kept.
C9_Witness ==
    /\ Filtered /\ OnlyGate
    /\ Len(noise_model) = 3
    /\ noise_model[1].criteria.kind = "ObservableCriteria"
    /\ noise_model[2].criteria.kind = "GateCriteria"
    /\ noise_model[2].criteria.gates.none
    /\ noise_model[3].criteria.kind = "GateCriteria"
    /\ ~noise_model[3].criteria.gates.none
    /\ Given(filter_args.gate) \notin noise_model[3].criteria.gates.set
    /\ reduced_noise_model = <<noise_model[2]>>

\* C9 as stated: every ObservableCriteria instruction passes the gate filter.
C9_Original ==
    (Filtered /\ OnlyGate) =>
        LET g == Given(filter_args.gate)
            Keep(instr) ==
                \/ instr.criteria.kind = "ObservableCriteria"
                \/ /\ instr.criteria.kind = "GateCriteria"
                   /\ instr.criteria.gates.none \/ g \in instr.criteria.gates.set
        IN  reduced_noise_model = SelectSeq(noise_model, Keep)

----------------------------------------------------------------------------
(* C10: from_filter() without a filter returns a model equal to the        *)
(* model: the same instructions in the same order.                         *)
C10_NoFilter ==
    (Filtered /\ filter_args = NoCall) => reduced_noise_model = noise_model

\* A model with gate criteria and observable criteria, filtered by nothing.
C10_Witness ==
    /\ Filtered
    /\ filter_args = NoCall
    /\ Len(noise_model) = 3
    /\ \E j, k \in DOMAIN noise_model :
        /\ noise_model[j].criteria.kind = "GateCriteria"
        /\ ~noise_model[j].criteria.gates.none
        /\ noise_model[k].criteria.kind = "ObservableCriteria"

----------------------------------------------------------------------------
(* C11: NoiseModel().from_dict(noise_model.to_dict()) has the instructions *)
(* of the model, in the same order: the same channel and parameters, and   *)
(* the same criteria, a filter that was None being None and a filter that  *)
(* was a set being that set.                                               *)
C11_RoundTrip ==
    pc = "loaded" =>
        /\ Len(loaded_model) = Len(noise_model)
        /\ \A i \in DOMAIN noise_model :
            /\ loaded_model[i].noise = noise_model[i].noise
            /\ loaded_model[i].criteria = noise_model[i].criteria

\* A loaded model with a filter that is None, a filter that names two
\* elements, both kinds of criteria and a channel of three parameters.
C11_Witness ==
    /\ pc = "loaded"
    /\ Len(noise_model) = 2
    /\ noise_model[1].criteria.kind = "GateCriteria"
    /\ noise_model[1].criteria.gates.none
    /\ Cardinality(noise_model[1].criteria.qubits.set) = 2
    /\ noise_model[2].criteria.kind = "ObservableCriteria"
    /\ Len(noise_model[2].noise.params) = 3
    /\ model_dict.instructions[1].criteria.gates.null
    /\ Len(model_dict.instructions[1].criteria.qubits.list) = 2
    /\ loaded_model = noise_model

----------------------------------------------------------------------------
(* C12: the instructions of a model created empty are the (noise,          *)
(* criteria) pairs of its add_noise calls, in call order: every call adds  *)
(* one instruction at the end, also when the model holds the pair already. *)
C12_AppendsInCallOrder ==
    /\ Len(noise_model) = Len(calls)
    /\ \A i \in DOMAIN calls :
           noise_model[i] = NoiseModelInstruction(calls[i][1], calls[i][2])

\* Two calls with the same noise and criteria: two entries.
C12_Witness ==
    /\ Len(calls) = 2
    /\ calls[1] = calls[2]
    /\ Len(noise_model) = 2
    /\ noise_model[1] = noise_model[2]

\* Two calls with different pairs: the second is the last instruction.
C12_WitnessOrder ==
    /\ Len(calls) = 2
    /\ calls[1] # calls[2]
    /\ noise_model[2] = NoiseModelInstruction(calls[2][1], calls[2][2])

----------------------------------------------------------------------------
(* C13: a call of apply leaves the instructions of the model and the       *)
(* operations and result types of the circuit as they were; a call of      *)
(* from_filter leaves the instructions of the model as they were, and its  *)
(* result is a model of its own: adding noise to the model afterwards      *)
(* leaves the result as it was.                                            *)
C13_NoMutation ==
    [][/\ pc' = "applied" => (noise_model' = noise_model /\ circ' = circ)
       /\ pc' = "filtered" => (noise_model' = noise_model /\ ~same_object')
       /\ (pc' = "build" /\ noise_model' # noise_model) =>
              reduced_noise_model' = reduced_noise_model]_vars

\* apply has put noise into noisy_circ, from_filter has returned the
\* instruction of the model, and the model has grown since.
C13_Witness ==
    /\ pc = "build"
    /\ circ.instructions # <<>>
    /\ Len(noisy_circ.instructions) > Len(circ.instructions)
    /\ Len(noise_model) = 2
    /\ reduced_noise_model = <<noise_model[1]>>
    /\ reduced_noise_model #
           from_filter(noise_model, filter_args.qubit, filter_args.gate,
                       filter_args.noise)

----------------------------------------------------------------------------
(* C14: in apply the gate criteria and the observable criteria do not      *)
(* interact. The noisy circuit is the gates with the noise that the gate   *)
(* criteria instructions alone put into the circuit without its result     *)
(* types, followed by the noise that the observable criteria instructions  *)
(* alone give for the result types; so a model of observable criteria      *)
(* only leaves a circuit without result types as it is.                    *)
C14_FamiliesApart ==
    Applied =>
        LET gate_model == OfKind(noise_model, "GateCriteria")
            readout_model == OfKind(noise_model, "ObservableCriteria")
            gates_only == Circuit(circ.instructions, <<>>)
            results_only == Circuit(<<>>, circ.result_types)
        IN  /\ noisy_circ.instructions =
                   apply(gate_model, gates_only).instructions
                   \o apply(readout_model, results_only).instructions
            /\ apply(readout_model, gates_only) = gates_only
            /\ apply(gate_model, results_only) = results_only
            /\ (gate_model = <<>> /\ circ.result_types = <<>>) => noisy_circ = circ

\* A gate and a result type on one qubit, gate criteria and observable
\* criteria that leave every filter open: one noise operation each.
C14_Witness ==
    /\ Applied
    /\ Len(circ.instructions) = 1
    /\ Len(circ.result_types) = 1
    /\ circ.result_types[1].target = circ.instructions[1].target
    /\ Len(noise_model) = 2
    /\ noise_model[1].criteria = ObservableCriteria(None, None)
    /\ noise_model[2].criteria = GateCriteria(None, None)
    /\ noise_model[1].noise # noise_model[2].noise
    /\ noisy_circ.instructions =
           <<circ.instructions[1],
             Instruction(noise_model[2].noise, circ.instructions[1].target),
             Instruction(noise_model[1].noise, circ.instructions[1].target)>>

\* Observable criteria only, gates only: nothing is added.
C14_WitnessNoResults ==
    /\ Applied
    /\ noise_model # <<>>
    /\ OfKind(noise_model, "GateCriteria") = <<>>
    /\ \E j \in DOMAIN noise_model : noise_model[j].criteria.qubits.none
    /\ circ.instructions # <<>>
    /\ circ.result_types = <<>>
    /\ noisy_circ = circ

----------------------------------------------------------------------------
(* C15: apply treats a noise operation that its input circuit holds as it  *)
(* treats a gate. Every operation of the input, noise or gate, stays where *)
(* it is and is followed by the noise of the gate criteria instructions    *)
(* whose gate filter and qubit filter admit it, in model order; the        *)
(* readout noise follows.                                                  *)

\* The filters of a gate criteria admit the operation, whatever it is.
Admits(criteria, instr) ==
    /\ criteria.kind = "GateCriteria"
    /\ criteria.gates.none \/ instr.operator.class \in criteria.gates.set
    /\ \/ criteria.qubits.none
       \/ \A t \in DOMAIN instr.target : instr.target[t] \in criteria.qubits.set

\* The noise of the instructions j.. of the model that admit instr.
RECURSIVE NoiseFor(_, _, _)
NoiseFor(model, instr, j) ==
    IF j > Len(model) THEN <<>>
    ELSE (IF Admits(model[j].criteria, instr)
          THEN <<Instruction(model[j].noise, instr.target)>>
          ELSE <<>>) \o NoiseFor(model, instr, j + 1)

\* Every operation i.. followed by its noise.
RECURSIVE EveryOperation(_, _, _)
EveryOperation(model, instructions, i) ==
    IF i > Len(instructions) THEN <<>>
    ELSE <<instructions[i]>> \o NoiseFor(model, instructions[i], 1)
             \o EveryOperation(model, instructions, i + 1)

C15_NoiseIsOrdinary ==
    pc = "applied2" =>
        LET out == noisy_circ_2.instructions
            readout == Cardinality(ReadoutPairs(noise_model_2, noisy_circ))
        IN  /\ readout <= Len(out)
            /\ SubSeq(out, 1, Len(out) - readout) =
                   EveryOperation(noise_model_2, noisy_circ.instructions, 1)

\* The first model has put a noise operation after a gate, and a gate
\* criteria of the second model admits that noise operation: it is kept
\* where it was and is followed by noise of the second model.
C15_Witness ==
    /\ pc = "applied2"
    /\ \E p \in DOMAIN noisy_circ.instructions :
        /\ IsNoise(noisy_circ.instructions[p])
        /\ \E j \in DOMAIN noise_model_2 :
               Admits(noise_model_2[j].criteria, noisy_circ.instructions[p])
        /\ \E P \in DOMAIN noisy_circ_2.instructions :
            /\ P < Len(noisy_circ_2.instructions)
            /\ P > p
            /\ noisy_circ_2.instructions[P] = noisy_circ.instructions[p]
            /\ IsNoise(noisy_circ_2.instructions[P + 1])
            /\ noisy_circ_2.instructions[P + 1].operator
                   # noisy_circ.instructions[p].operator

----------------------------------------------------------------------------
(* C16: a gate criteria matches an operation iff its gate filter is None   *)
(* or holds the kind of the operation, and its qubit filter is None or     *)
(* holds every target qubit of the operation. So a criteria on qubit 0     *)
(* does not match a gate on the qubits 0 and 1, and a filter that is the   *)
(* empty set, not None, matches nothing.                                   *)
C16_Matches ==
    pc = "matched" =>
        LET criteria == noise_model[1].criteria
            op == circ.instructions[1]
            targets == {op.target[t] : t \in DOMAIN op.target}
        IN  /\ matches <=>
                   /\ criteria.gates.none \/ op.operator.class \in criteria.gates.set
                   /\ criteria.qubits.none \/ targets \subseteq criteria.qubits.set
            /\ (criteria.qubits = Some({0}) /\ targets = {0, 1}) => ~matches
            /\ criteria.gates = Some({}) => ~matches
            /\ criteria.qubits = Some({}) => ~matches

\* A criteria on qubit 0 with no gate filter, and a gate on the qubits 0
\* and 1: no match.
C16_Witness ==
    /\ pc = "matched"
    /\ noise_model[1].criteria = GateCriteria(None, Some({0}))
    /\ circ.instructions[1] = Instruction(Gate("CNot"), <<0, 1>>)
    /\ ~matches

\* The same gate with both its qubits in the filter: a match.
C16_WitnessBothQubits ==
    /\ pc = "matched"
    /\ noise_model[1].criteria = GateCriteria(Some({"H", "CNot"}), Some({0, 1}))
    /\ circ.instructions[1] = Instruction(Gate("CNot"), <<1, 0>>)
    /\ matches

\* None matches, the empty set does not.
C16_WitnessEmpty ==
    /\ pc = "matched"
    /\ noise_model[1].criteria \in
           {GateCriteria(Some({}), None), GateCriteria(None, Some({}))}
    /\ circ.instructions[1] = Instruction(Gate("H"), <<0>>)
    /\ ~matches
    /\ GateCriteriaMatches(GateCriteria(None, None), circ.instructions[1])

====
